---- MODULE Spec2Model ----
(***************************************************************************)
(* The survey simulation driver (Simulator.run and its helpers) and the    *)
(* Sequencer's observe_target, as a state machine.  Timestamps are whole   *)
(* seconds; the simulated clock is time_handler.current_timestamp counted  *)
(* from the survey start.  The scheduler, the sky model and the downtime   *)
(* calendar are the environment: what they return is chosen from small     *)
(* sets at the step that asks them.                                        *)
(***************************************************************************)
EXTENDS Integers, Sequences, FiniteSets

VARIABLES
    pc,                             \* position of run()
    wait_for_scheduler,             \* not opts.no_scheduler
    duration,                       \* self.duration as run() reads it
    frac_duration,                  \* opts.frac_duration
    survey_duration,                \* conf.survey.duration
    fractional_duration,            \* self.fractional_duration
    night,                          \* loop variable of run()
    clock,                          \* time_handler.current_timestamp
    end_of_night,                   \* self.end_of_night
    set_timestamp,                  \* sunset returned by get_night_boundaries
    entry_clock,                    \* clock when start_night was entered
    reposition_clock,               \* clock right after start_night's first update_time
    down_days,                      \* dh.get_downtime(night)
    target,                         \* the subscribed target topic
    rcode,                          \* return code of the last getNextSample_*
    wall,                           \* tf - lasttime seen by the last failed poll
    interested_proposal,            \* the subscribed interestedProposal topic
    interest_result,                \* how this cycle's interest wait ended
    filter_swap,                    \* the filterSwap topic of the day phase
    swap_result,                    \* how the day phase's swap wait ended
    observation,                    \* the Sequencer's observation topic
    targets_received,               \* Sequencer.targets_received
    observations_made,              \* Sequencer.observations_made
    th_updates,                     \* update_time calls of the last observe_target
    cycle_clock,                    \* clock when the cycle's observe_target was called
    target_proposals_counted,       \* Simulator.target_proposals_counted
    observation_proposals_counted,  \* Simulator.observation_proposals_counted
    data,                           \* db: the per-night buffer
    written,                        \* db: the batches flushed by db.write
    appended_obs,                   \* every observation id appended in the run
    tph_log,                        \* counters of all target proposal rows appended
    oph_log,                        \* counters of all observation proposal rows appended
    cycle_rows,                     \* rows appended by the current cycle, per table
    cycle_appends,                  \* tables of the current cycle's append_data calls, in order
    cycle_events,                   \* what the current cycle has done, in order
    start_day_calls,                \* calls of Sequencer.start_day
    downtime_calls,                 \* calls of dh.get_downtime
    down_nights,                    \* nights so far with down_days # 0
    put_calls,                      \* calls of sal.put in run(), per topic
    field,                          \* the subscribed field topic
    end_fields,                     \* end_fields of the field loop of run()
    field_set,                      \* field_set of the field loop
    fields_from_dds,                \* fields_from_dds of the field loop
    field_list,                     \* self.field_list, as written to the field table
    field_log,                      \* return code and field id after each field poll
    phtype,                         \* phtype of the last gather_proposal_history call
    observation_ids,                \* observationId stamped by each completed observe_target call
    sequencer_times                 \* seq.slew_time and seq.visit_time, in seconds

vars == <<pc, wait_for_scheduler, duration, frac_duration, survey_duration,
          fractional_duration, night, clock, end_of_night,
          set_timestamp, entry_clock, reposition_clock, down_days, target,
          rcode, wall, interested_proposal, interest_result, filter_swap,
          swap_result, observation, targets_received, observations_made,
          th_updates, cycle_clock, target_proposals_counted,
          observation_proposals_counted, data, written, appended_obs,
          tph_log, oph_log, cycle_rows, cycle_appends, cycle_events,
          start_day_calls,
          downtime_calls, down_nights, put_calls, field, end_fields,
          field_set, fields_from_dds, field_list, field_log, phtype,
          observation_ids, sequencer_times>>

(* The state of the field retrieval at the start of run() *)
field_vars ==
    <<field, end_fields, field_set, fields_from_dds, field_list, field_log>>

-----------------------------------------------------------------------------
(* Bounds of the model *)

MaxNights == 2
MaxNum == 5
MaxFieldPolls == 4
MaxObs == 3
Skew == 25

(* Program constants *)

HardTimeout == 60
SoftTimeout == 5
slew_time == 6
visit_time == 34
SECONDS_IN_MINUTE == 60
DAYS_IN_YEAR == 365

(* What the environment may answer *)

RCodes == {0, -100}
TargetSamples ==
    {[targetId |-> -1, num_exposures |-> 2, num_proposals |-> 0],
     [targetId |-> 1, num_exposures |-> 2, num_proposals |-> 1],
     [targetId |-> 1, num_exposures |-> 0, num_proposals |-> 1]}
InterestCounts == {-1, 0, 2}
Filters == {"", "z"}
Downtimes == {0, 1}
SunsetOffsets == {0 - 2 * Skew, 0 - Skew, 0, Skew}
NightLengths == {2 * (slew_time + visit_time) - 10}
HardWallTimes == {0, HardTimeout, HardTimeout + 1}
SoftWallTimes == {0, SoftTimeout, SoftTimeout + 1}

NoObservation ==
    [observationId |-> -1, observationTime |-> -1, targetId |-> 0, night |-> 0]
EmptyData ==
    [target_history |-> <<>>, observation_history |-> <<>>,
     target_proposal_history |-> <<>>, observation_proposal_history |-> <<>>,
     slew |-> <<>>, exposure |-> <<>>]
NoRows == [target_history |-> 0, observation_history |-> 0,
           target_proposal_history |-> 0, observation_proposal_history |-> 0]

-----------------------------------------------------------------------------
(* Pure helpers *)

(* the difference taken with its sign *)
fabs_Signed(x) == x

(* math.fabs *)
fabs(x) == IF x < 0 THEN 0 - x ELSE x

update_time(t, delta) == t + delta

Max0(n) == IF n < 0 THEN 0 ELSE n

(* The exposure cycles a night takes from clock c to the boundary eon *)
CyclesFrom(c, eon) ==
    IF c >= eon THEN 0
    ELSE (eon - c + slew_time + visit_time - 1) \div (slew_time + visit_time)


(* math.fabs(current - set_timestamp), then update_time(delta, "seconds") *)
RepositionToSunset(c, sunset) == update_time(c, fabs(c - sunset))

(* math.fabs(current - end_of_night) + SECONDS_IN_MINUTE, then update_time *)
(* start_night without the downtime skip *)
SkipDownNight_Stay(c, eon) == c

SkipDownNight(c, eon) == update_time(c, fabs(c - eon) + SECONDS_IN_MINUTE)

(* LoopPc with <= in place of < *)
LoopPc_Inclusive(c, eon) == IF c <= eon THEN "pub_time" ELSE "end_night"

(* while self.time_handler.current_timestamp < self.end_of_night *)
LoopPc(c, eon) == IF c < eon THEN "pub_time" ELSE "end_night"

(* for night in xrange(1, int(self.duration) + 1) *)
(* The for loop running one night more than the duration *)
NextNightPc_OneMore(n, d) == IF n <= d THEN "start_night" ELSE "done"

NextNightPc(n, d) == IF n < d THEN "start_night" ELSE "done"

(* NextStep with the state and the cloud messages exchanged *)
NextStep_CloudBeforeState(step) ==
    CASE step = "pub_time" -> "pub_cloud"
      [] step = "pub_cloud" -> "pub_state"
      [] step = "pub_state" -> "pub_seeing"
      [] step = "pub_seeing" -> "target_wait"
      [] step = "target_wait" -> "observe"
      [] step = "observe" -> "pub_obs"
      [] step = "pub_obs" -> "interest_wait"
      [] step = "interest_wait" -> "append"

(* The order of the steps of one exposure cycle in run() *)
NextStep(step) ==
    CASE step = "pub_time" -> "pub_state"
      [] step = "pub_state" -> "pub_cloud"
      [] step = "pub_cloud" -> "pub_seeing"
      [] step = "pub_seeing" -> "target_wait"
      [] step = "target_wait" -> "observe"
      [] step = "observe" -> "pub_obs"
      [] step = "pub_obs" -> "interest_wait"
      [] step = "interest_wait" -> "append"

(* TargetAccepted without the test of the exposure count *)
TargetAccepted_AnyCount(rc, t) == rc = 0

(* if rcode == 0 and self.target.num_exposures != 0: break *)
TargetAccepted(rc, t) == rc = 0 /\ t.num_exposures # 0

(* TargetTimedOut with >= in place of > *)
TargetTimedOut_AtLimit(elapsed) == elapsed >= HardTimeout

(* if (tf - lasttime) > 60.0: raise SchedulerTimeoutError *)
TargetTimedOut(elapsed) == elapsed > HardTimeout

(* if rcode == 0 and self.interested_proposal.num_proposals >= 0: break *)
InterestReceived(rc, n) == rc = 0 /\ n >= 0

(* if (tf - lastconfigtime) > 5.0: break *)
SoftTimedOut(elapsed) == elapsed > SoftTimeout

(* AfterInterestTimeout raising as the target wait does *)
AfterInterestTimeout_Raises == "fatal"

(* Where run() goes when the interest wait times out: the break at the end
   of the loop, on to the appends *)
AfterInterestTimeout == NextStep("interest_wait")

(* if rcode == 0 and self.filter_swap.filter_to_unmount != '': break *)
SwapReceived(rc, f) == rc = 0 /\ f # ""

(* AfterSwapTimeout raising as the target wait does *)
AfterSwapTimeout_Raises == "fatal"

(* Where start_day() goes when the swap wait times out *)
AfterSwapTimeout == "seq_start_day"

(* observe_target with both update_time calls left out *)
observe_target_NoAdvance(tgt, c, received, made) ==
    [clock |-> c,
     observation |-> [observationId |-> made,
                      observationTime |-> c,
                      targetId |-> tgt.targetId,
                      night |-> 0],
     updates |-> <<>>,
     targets_received |-> received + 1,
     observations_made |-> made + 1]

(* observe_target stamping the observation after the visit *)
observe_target_StampAfterVisit(tgt, c, received, made) ==
    LET slewed == update_time(c, slew_time)
        visited == update_time(slewed, visit_time)
    IN  [clock |-> visited,
         observation |-> [observationId |-> made,
                          observationTime |-> visited,
                          targetId |-> tgt.targetId,
                          night |-> 0],
         updates |-> <<slew_time, visit_time>>,
         targets_received |-> received + 1,
         observations_made |-> made + 1]

(* observe_target without observations_made += 1 *)
observe_target_NoCount(tgt, c, received, made) ==
    LET slewed == update_time(c, slew_time)
        visited == update_time(slewed, visit_time)
    IN  [clock |-> visited,
         observation |-> [observationId |-> made,
                          observationTime |-> slewed,
                          targetId |-> tgt.targetId,
                          night |-> 0],
         updates |-> <<slew_time, visit_time>>,
         targets_received |-> received + 1,
         observations_made |-> made]

(* observe_target_with without the two update_time calls *)
observe_target_with_ClockKept(tgt, c, received, made, times) ==
    [clock |-> c,
     observation |-> [observationId |-> made,
                      observationTime |-> c,
                      targetId |-> tgt.targetId,
                      night |-> 0],
     updates |-> <<>>,
     targets_received |-> received + 1,
     observations_made |-> made + 1]

(* Sequencer.observe_target over the Sequencer's slew_time and visit_time:
   the clock, the observation and the counters after the call, and the
   update_time calls it made, in order *)
observe_target_with(tgt, c, received, made, times) ==
    LET slewed == update_time(c, times.slew)
        visited == update_time(slewed, times.visit)
    IN  [clock |-> visited,
         observation |-> [observationId |-> made,
                          observationTime |-> slewed,
                          targetId |-> tgt.targetId,
                          night |-> 0],
         updates |-> <<times.slew, times.visit>>,
         targets_received |-> received + 1,
         observations_made |-> made + 1]

(* Sequencer.observe_target with the times Sequencer.__init__ sets *)
observe_target(tgt, c, received, made) ==
    observe_target_with(tgt, c, received, made,
                        [slew |-> slew_time, visit |-> visit_time])

(* None passed as the target *)
NullTarget == [is_none |-> TRUE]

(* observe_target_call failing only at the copy of the target's fields,
   after the counter and the slew *)
observe_target_call_LateFailure(tgt, c, received, made) ==
    IF tgt = NullTarget
      THEN [raised |-> TRUE,
            clock |-> update_time(c, slew_time),
            observation |-> NoObservation,
            updates |-> <<slew_time>>,
            targets_received |-> received + 1,
            observations_made |-> made]
      ELSE LET r == observe_target(tgt, c, received, made)
           IN  [raised |-> FALSE,
                clock |-> r.clock,
                observation |-> r.observation,
                updates |-> r.updates,
                targets_received |-> r.targets_received,
                observations_made |-> r.observations_made]

(* A call of Sequencer.observe_target with any argument: target.targetId in
   its first statement raises AttributeError for None, before anything is
   changed *)
observe_target_call(tgt, c, received, made) ==
    IF tgt = NullTarget
      THEN [raised |-> TRUE,
            clock |-> c,
            observation |-> NoObservation,
            updates |-> <<>>,
            targets_received |-> received,
            observations_made |-> made]
      ELSE LET r == observe_target(tgt, c, received, made)
           IN  [raised |-> FALSE,
                clock |-> r.clock,
                observation |-> r.observation,
                updates |-> r.updates,
                targets_received |-> r.targets_received,
                observations_made |-> r.observations_made]

(* gather_proposal_history without the += 1 after each row *)
gather_proposal_history_NoIncrement(counter, n, owner) ==
    [rows |-> [i \in 1..Max0(n) |-> [counter |-> counter, owner |-> owner]],
     counter |-> counter]

(* gather_proposal_history: the rows appended for a topic with n proposals
   (range(n) is empty for n <= 0) and the counter afterwards *)
gather_proposal_history(counter, n, owner) ==
    [rows |-> [i \in 1..Max0(n) |-> [counter |-> counter + i - 1, owner |-> owner]],
     counter |-> counter + Max0(n)]

(* The sub-records observe_target hands back beside the observation, by
   the table each goes to: one row for each slew table, and a target and an
   observation exposure row for each exposure of the target *)
slew_info ==
    <<"slew_history", "slew_activities", "slew_initial_conditions",
      "slew_final_conditions">>

exposure_info(n) ==
    [i \in 1..n |-> "target_exposures"]
        \o [i \in 1..n |-> "observation_exposures"]

(* AppendOrder with the sub-records appended before the history rows *)
AppendOrder_SubRecordsFirst(nt, no, slews, exposures) ==
    <<"target_history", "observation_history">>
        \o slews \o exposures
        \o [i \in 1..nt |-> "target_proposal_history"]
        \o [i \in 1..no |-> "observation_proposal_history"]

(* The append_data calls of one cycle in the order run() makes them *)
AppendOrder(nt, no, slews, exposures) ==
    <<"target_history", "observation_history">>
        \o [i \in 1..nt |-> "target_proposal_history"]
        \o [i \in 1..no |-> "observation_proposal_history"]
        \o slews \o exposures

(* gather_proposal_history_call with one counter serving both kinds *)
gather_proposal_history_call_OneCounter(kind, topic, d, tcount, ocount) ==
    IF kind = "observation"
      THEN LET g == gather_proposal_history(tcount, topic.num_proposals,
                                            topic.observationId)
           IN  [data |-> [d EXCEPT !.observation_proposal_history = @ \o g.rows],
                target_proposals_counted |-> g.counter,
                observation_proposals_counted |-> ocount]
    ELSE IF kind = "target"
      THEN LET g == gather_proposal_history(tcount, topic.num_proposals,
                                            topic.targetId)
           IN  [data |-> [d EXCEPT !.target_proposal_history = @ \o g.rows],
                target_proposals_counted |-> g.counter,
                observation_proposals_counted |-> ocount]
    ELSE [data |-> d, target_proposals_counted |-> tcount,
          observation_proposals_counted |-> ocount]

(* One call gather_proposal_history(phtype, topic): the buffer and the two
   counters after it *)
gather_proposal_history_call(kind, topic, d, tcount, ocount) ==
    IF kind = "observation"
      THEN LET g == gather_proposal_history(ocount, topic.num_proposals,
                                            topic.observationId)
           IN  [data |-> [d EXCEPT !.observation_proposal_history = @ \o g.rows],
                target_proposals_counted |-> tcount,
                observation_proposals_counted |-> g.counter]
    ELSE IF kind = "target"
      THEN LET g == gather_proposal_history(tcount, topic.num_proposals,
                                            topic.targetId)
           IN  [data |-> [d EXCEPT !.target_proposal_history = @ \o g.rows],
                target_proposals_counted |-> g.counter,
                observation_proposals_counted |-> ocount]
    ELSE [data |-> d, target_proposals_counted |-> tcount,
          observation_proposals_counted |-> ocount]

(* db.append_data, db.write, db.clear_data; a flushed batch is kept by its
   target and observation rows *)
db_append(d, table, rows) == [d EXCEPT ![table] = @ \o rows]
db_write(w, d) ==
    Append(w, [target_history |-> d.target_history,
               observation_history |-> d.observation_history])
db_clear_data == EmptyData

(* The appends made whether or not the scheduler is waited for *)
records_appended_AnyMode(wait, obs) == obs.targetId # -1

(* if self.wait_for_scheduler and observation.targetId != -1 *)
records_appended(wait, obs) == wait /\ obs.targetId # -1

(* start_night without the call of clear_data *)
start_night_data_NoClear(d) == d

(* Simulator.start_night: self.db.clear_data() *)
start_night_data(d) == db_clear_data

(* end_night without the flush *)
end_night_written_NoFlush(w, d) == w

(* Simulator.end_night: self.db.write() *)
end_night_written(w, d) == db_write(w, d)

Counters(rows) == [i \in 1..Len(rows) |-> rows[i].counter]

-----------------------------------------------------------------------------
(* The state after Simulator.__init__ and initialize() *)

(* Durations in years, as fractions num / den; -1 is the command line's
   "no override" *)
NoOverride == [num |-> -1, den |-> 1]

Fractions ==
    [num : 0..MaxNum, den : {1, 2, DAYS_IN_YEAR, 2 * DAYS_IN_YEAR}]

Nights(n) == [num |-> n, den |-> DAYS_IN_YEAR]

(* round to the nearest integer, ties to the even one *)
round_HalfEven(p, q) ==
    LET fl == p \div q
        r2 == 2 * (p - fl * q)
    IN  IF r2 < q THEN fl
        ELSE IF r2 > q THEN fl + 1
        ELSE IF fl % 2 = 0 THEN fl ELSE fl + 1

(* round(p / q) of Python 2: to the nearest integer, ties away from zero *)
round(p, q) ==
    IF p >= 0 THEN (2 * p + q) \div (2 * q)
    ELSE 0 - ((2 * (0 - p) + q) \div (2 * q))

(* Simulator.duration: round(self.fractional_duration * DAYS_IN_YEAR) *)
Simulator_duration(f) == round(f.num * DAYS_IN_YEAR, f.den)

(* The frac_duration branch of Simulator.__init__ *)
Simulator_init(opt, conf) ==
    IF opt = NoOverride
      THEN [fractional_duration |-> conf, survey_duration |-> conf]
      ELSE [fractional_duration |-> opt, survey_duration |-> opt]

(* A Simulator constructed with option opt over a configuration holding conf *)
Constructed(opt, conf) ==
    LET r == Simulator_init(opt, conf)
    IN  /\ frac_duration = opt
        /\ survey_duration = r.survey_duration
        /\ fractional_duration = r.fractional_duration
        /\ duration = Simulator_duration(r.fractional_duration)

(* The topics run() hands to sal.put *)
PutTopics == {"time", "state", "cloud", "seeing", "observation"}

(* sal_put that counts nothing *)
sal_put_Dropped(calls, topic) == calls

(* self.sal.put(topic), as the count of calls per topic *)
sal_put(calls, topic) == [calls EXCEPT ![topic] = @ + 1]

(* start_night publishing the two messages on every night *)
start_night_puts_EveryNight(calls, dd) ==
    sal_put(sal_put(calls, "time"), "state")

(* The puts of start_night: the time message with is_down set and the
   observatory state, on a down night only *)
start_night_puts(calls, dd) ==
    IF dd # 0 THEN sal_put(sal_put(calls, "time"), "state") ELSE calls

(* The field topic and the locals of the field loop before the loop *)
NoFieldsYet ==
    /\ field = [ID |-> 0]
    /\ end_fields = FALSE
    /\ field_set = {}
    /\ fields_from_dds = 0
    /\ field_list = <<>>
    /\ field_log = <<>>

(* The same after the retrieval of the tests: two polls, each with code 0
   and id -1 *)
FieldsRetrieved ==
    /\ field = [ID |-> -1]
    /\ end_fields = TRUE
    /\ field_set = {}
    /\ fields_from_dds = 0
    /\ field_list = <<>>
    /\ field_log = <<[rcode |-> 0, ID |-> -1], [rcode |-> 0, ID |-> -1]>>

InitOther ==
    /\ observation_ids = <<>>
    /\ phtype = "none"
    /\ night = 0
    /\ end_of_night = 0
    /\ set_timestamp = 0
    /\ entry_clock = 0
    /\ reposition_clock = 0
    /\ down_days = 0
    /\ target = [targetId |-> 0, num_exposures |-> 0, num_proposals |-> 0]
    /\ rcode = 0
    /\ wall = 0
    /\ interested_proposal = [num_proposals |-> 0, observationId |-> 0]
    /\ interest_result = "none"
    /\ filter_swap = [filter_to_unmount |-> ""]
    /\ swap_result = "none"
    /\ observation = NoObservation
    /\ targets_received = 0
    /\ observations_made = 0
    /\ th_updates = <<>>
    /\ cycle_clock = 0
    /\ target_proposals_counted = 1
    /\ observation_proposals_counted = 1
    /\ data = EmptyData
    /\ written = <<>>
    /\ appended_obs = <<>>
    /\ tph_log = <<>>
    /\ oph_log = <<>>
    /\ cycle_rows = NoRows
    /\ cycle_appends = <<>>
    /\ cycle_events = <<>>
    /\ start_day_calls = 0
    /\ downtime_calls = 0
    /\ down_nights = 0
    /\ put_calls = [t \in PutTopics |-> 0]

(* Sequencer.__init__: self.slew_time, self.visit_time *)
SequencerTimes == [slew |-> slew_time, visit |-> visit_time]

InitRest ==
    /\ sequencer_times = SequencerTimes
    /\ InitOther

Init ==
    /\ pc = "start_night"
    /\ wait_for_scheduler \in BOOLEAN
    /\ \E n \in 1..MaxNights : Constructed(Nights(n), Nights(n))
    /\ clock = 0
    /\ IF wait_for_scheduler THEN FieldsRetrieved ELSE NoFieldsYet
    /\ InitRest

-----------------------------------------------------------------------------
(* Simulator.start_night, entered from the for loop of run(), with the sky
   model's and the downtime calendar's answers drawn from the given sets *)
StartNightWith(offsets, lengths, downtimes, max_obs) ==
    /\ pc = "start_night"
    /\ \E ds \in offsets, w \in lengths, dd \in downtimes :
         LET sunset == clock + ds
             rise == sunset + w
             c1 == RepositionToSunset(clock, sunset)
             c2 == IF dd # 0 THEN SkipDownNight(c1, rise) ELSE c1
         IN  /\ (dd # 0 \/ observations_made + CyclesFrom(c1, rise) <= max_obs)
             /\ night' = night + 1
             /\ entry_clock' = clock
             /\ set_timestamp' = sunset
             /\ end_of_night' = rise
             /\ reposition_clock' = c1
             /\ down_days' = dd
             /\ downtime_calls' = downtime_calls + 1
             /\ down_nights' = IF dd # 0 THEN down_nights + 1 ELSE down_nights
             /\ put_calls' = start_night_puts(put_calls, dd)
             /\ clock' = c2
             /\ pc' = LoopPc(c2, rise)
    /\ data' = start_night_data(data)
    /\ interest_result' = "none"
    /\ swap_result' = "none"
    /\ cycle_rows' = NoRows
    /\ cycle_appends' = <<>>
    /\ cycle_events' = <<>>
    /\ UNCHANGED <<field_vars, phtype, observation_ids,
                   sequencer_times, wait_for_scheduler, duration, frac_duration,
                   survey_duration, fractional_duration, target, rcode, wall,
                   interested_proposal, filter_swap, observation,
                   targets_received, observations_made, th_updates,
                   cycle_clock, target_proposals_counted,
                   observation_proposals_counted, written, appended_obs,
                   tph_log, oph_log, start_day_calls>>

StartNight == StartNightWith(SunsetOffsets, NightLengths, Downtimes, MaxObs)

CycleFrame ==
    UNCHANGED <<field_vars, phtype, observation_ids,
                sequencer_times, wait_for_scheduler, duration, frac_duration,
                   survey_duration, fractional_duration, night, clock, end_of_night,
                set_timestamp, entry_clock, reposition_clock, down_days,
                filter_swap, swap_result, targets_received,
                observations_made, th_updates, cycle_clock,
                target_proposals_counted, observation_proposals_counted,
                data, written, appended_obs, tph_log, oph_log,
                start_day_calls, downtime_calls, down_nights>>

(* self.sal.put(self.comm_time) at the head of the cycle *)
PublishTime ==
    /\ pc = "pub_time"
    /\ pc' = NextStep("pub_time")
    /\ cycle_events' = <<"time">>
    /\ interest_result' = "none"
    /\ cycle_rows' = NoRows
    /\ cycle_appends' = <<>>
    /\ UNCHANGED <<target, rcode, wall, interested_proposal, observation>>
    /\ put_calls' = sal_put(put_calls, "time")
    /\ CycleFrame

(* self.sal.put(observatory_state) *)
PublishState ==
    /\ pc = "pub_state"
    /\ pc' = NextStep("pub_state")
    /\ cycle_events' = Append(cycle_events, "state")
    /\ UNCHANGED <<target, rcode, wall, interested_proposal, observation,
                   interest_result, cycle_rows, cycle_appends>>
    /\ put_calls' = sal_put(put_calls, "state")
    /\ CycleFrame

(* self.sal.put(self.cloud) *)
PublishCloud ==
    /\ pc = "pub_cloud"
    /\ pc' = NextStep("pub_cloud")
    /\ cycle_events' = Append(cycle_events, "cloud")
    /\ UNCHANGED <<target, rcode, wall, interested_proposal, observation,
                   interest_result, cycle_rows, cycle_appends>>
    /\ put_calls' = sal_put(put_calls, "cloud")
    /\ CycleFrame

(* self.sal.put(self.seeing); get_target_from_scheduler then reads the wall
   clock: lasttime = time.time() *)
PublishSeeing ==
    /\ pc = "pub_seeing"
    /\ pc' = NextStep("pub_seeing")
    /\ cycle_events' = Append(cycle_events, "seeing")
    /\ wall' = 0
    /\ UNCHANGED <<target, rcode, interested_proposal, observation,
                   interest_result, cycle_rows, cycle_appends>>
    /\ put_calls' = sal_put(put_calls, "seeing")
    /\ CycleFrame

(* One turn of the loop of get_target_from_scheduler, with the poll's answer
   drawn from the given sets *)
TargetPollWith(rcodes, samples, walltimes) ==
    /\ pc = "target_wait"
    /\ wait_for_scheduler
    /\ \E rc \in rcodes, t \in samples, tf \in walltimes :
         LET tgt == IF rc = 0 THEN t ELSE target
         IN  /\ tf >= wall
             /\ rcode' = rc
             /\ target' = tgt
             /\ IF TargetAccepted(rc, tgt)
                  THEN /\ pc' = NextStep("target_wait")
                       /\ wall' = 0
                       /\ cycle_events' = Append(cycle_events, "target_wait")
                  ELSE /\ wall' = tf
                       /\ pc' = IF TargetTimedOut(tf) THEN "fatal" ELSE "target_wait"
                       /\ cycle_events' = cycle_events
    /\ UNCHANGED <<interested_proposal, observation, interest_result,
                   cycle_rows, cycle_appends>>
    /\ UNCHANGED put_calls
    /\ CycleFrame

TargetPoll == TargetPollWith(RCodes, TargetSamples, HardWallTimes)

(* get_target_from_scheduler with the scheduler disabled: the loop is not
   entered *)
TargetSkip ==
    /\ pc = "target_wait"
    /\ ~wait_for_scheduler
    /\ pc' = NextStep("target_wait")
    /\ cycle_events' = Append(cycle_events, "target_wait")
    /\ UNCHANGED <<target, rcode, wall, interested_proposal, observation,
                   interest_result, cycle_rows, cycle_appends>>
    /\ UNCHANGED put_calls
    /\ CycleFrame

(* observation, ... = self.seq.observe_target(...) returning r, and
   observation.night = night *)
ObserveWith(r) ==
    /\ pc = "observe"
    /\ clock' = r.clock
    /\ observation' = [r.observation EXCEPT !.night = night]
    /\ th_updates' = r.updates
    /\ targets_received' = r.targets_received
    /\ observations_made' = r.observations_made
    /\ observation_ids' = Append(observation_ids, r.observation.observationId)
    /\ cycle_clock' = clock
    /\ pc' = NextStep("observe")
    /\ cycle_events' = Append(cycle_events, "observe")
    /\ UNCHANGED <<field_vars, phtype,
                   sequencer_times, wait_for_scheduler, duration, frac_duration,
                   survey_duration, fractional_duration, night, end_of_night,
                   set_timestamp, entry_clock, reposition_clock, down_days,
                   target, rcode, wall, interested_proposal, interest_result,
                   filter_swap, swap_result, target_proposals_counted,
                   observation_proposals_counted, data, written, appended_obs,
                   tph_log, oph_log, cycle_rows, cycle_appends,
                   start_day_calls,
                   downtime_calls, down_nights, put_calls>>

(* self.seq.observe_target(self.target, self.time_handler) *)
Observe ==
    ObserveWith(observe_target(target, clock, targets_received,
                               observations_made))

(* self.sal.put(observation); lastconfigtime = time.time() *)
PublishObservation ==
    /\ pc = "pub_obs"
    /\ pc' = NextStep("pub_obs")
    /\ cycle_events' = Append(cycle_events, "observation")
    /\ wall' = 0
    /\ UNCHANGED <<target, rcode, interested_proposal, observation,
                   interest_result, cycle_rows, cycle_appends>>
    /\ put_calls' = sal_put(put_calls, "observation")
    /\ CycleFrame

(* One turn of the interest-feedback loop *)
InterestPoll ==
    /\ pc = "interest_wait"
    /\ wait_for_scheduler
    /\ \E rc \in RCodes, n \in InterestCounts, tf \in SoftWallTimes :
         LET ip == IF rc = 0
                     THEN [num_proposals |-> n,
                           observationId |-> observation.observationId]
                     ELSE interested_proposal
         IN  /\ tf >= wall
             /\ rcode' = rc
             /\ interested_proposal' = ip
             /\ IF InterestReceived(rc, ip.num_proposals)
                  THEN /\ pc' = NextStep("interest_wait")
                       /\ wall' = 0
                       /\ interest_result' = "received"
                       /\ cycle_events' = Append(cycle_events, "interest_wait")
                  ELSE /\ wall' = tf
                       /\ IF SoftTimedOut(tf)
                            THEN /\ pc' = AfterInterestTimeout
                                 /\ interest_result' = "timeout"
                                 /\ cycle_events' = Append(cycle_events, "interest_wait")
                            ELSE /\ pc' = "interest_wait"
                                 /\ interest_result' = interest_result
                                 /\ cycle_events' = cycle_events
    /\ UNCHANGED <<target, observation, cycle_rows, cycle_appends>>
    /\ UNCHANGED put_calls
    /\ CycleFrame

(* The interest-feedback loop with the scheduler disabled *)
InterestSkip ==
    /\ pc = "interest_wait"
    /\ ~wait_for_scheduler
    /\ pc' = NextStep("interest_wait")
    /\ cycle_events' = Append(cycle_events, "interest_wait")
    /\ UNCHANGED <<target, rcode, wall, interested_proposal, observation,
                   interest_result, cycle_rows, cycle_appends>>
    /\ UNCHANGED put_calls
    /\ CycleFrame

(* if self.wait_for_scheduler and observation.targetId != -1: the appends;
   then back to the head of the while loop *)
AppendData ==
    /\ pc = "append"
    /\ IF records_appended(wait_for_scheduler, observation)
         THEN LET tg == gather_proposal_history(target_proposals_counted,
                                                target.num_proposals,
                                                target.targetId)
                  og == gather_proposal_history(observation_proposals_counted,
                                                interested_proposal.num_proposals,
                                                interested_proposal.observationId)
                  d1 == db_append(data, "target_history", <<target.targetId>>)
                  d2 == db_append(d1, "observation_history",
                                  <<observation.observationId>>)
                  c1 == gather_proposal_history_call(
                            "target", target, d2, target_proposals_counted,
                            observation_proposals_counted)
                  c2 == gather_proposal_history_call(
                            "observation", interested_proposal, c1.data,
                            c1.target_proposals_counted,
                            c1.observation_proposals_counted)
                  d4 == c2.data
                  d5 == db_append(d4, "slew", slew_info)
                  d6 == db_append(d5, "exposure",
                                  exposure_info(target.num_exposures))
              IN  /\ data' = d6
                  /\ cycle_appends' =
                         AppendOrder(Len(tg.rows), Len(og.rows), slew_info,
                                     exposure_info(target.num_exposures))
                  /\ target_proposals_counted' = c2.target_proposals_counted
                  /\ observation_proposals_counted' =
                         c2.observation_proposals_counted
                  /\ phtype' = "observation"
                  /\ appended_obs' = Append(appended_obs, observation.observationId)
                  /\ tph_log' = tph_log \o Counters(tg.rows)
                  /\ oph_log' = oph_log \o Counters(og.rows)
                  /\ cycle_rows' = [target_history |-> 1,
                                    observation_history |-> 1,
                                    target_proposal_history |-> Len(tg.rows),
                                    observation_proposal_history |-> Len(og.rows)]
                  /\ cycle_events' = Append(cycle_events, "append")
         ELSE /\ UNCHANGED <<phtype, data, target_proposals_counted,
                             observation_proposals_counted, appended_obs,
                             tph_log, oph_log, cycle_rows, cycle_appends,
                             cycle_events>>
    /\ wall' = 0
    /\ rcode' = 0
    /\ pc' = LoopPc(clock, end_of_night)
    /\ UNCHANGED <<field_vars, observation_ids,
                   sequencer_times, wait_for_scheduler, duration, frac_duration,
                   survey_duration, fractional_duration, night, clock, end_of_night,
                   set_timestamp, entry_clock, reposition_clock, down_days,
                   target, interested_proposal, interest_result,
                   filter_swap, swap_result, observation, targets_received,
                   observations_made, th_updates, cycle_clock, written,
                   start_day_calls,
                   downtime_calls, down_nights, put_calls>>

(* DayFrame with the steps of NightEnd and the day phase moving the clock *)
DayFrame_ClockAdvances ==
    /\ clock' = update_time(clock, SECONDS_IN_MINUTE)
    /\ UNCHANGED <<field_vars, phtype, observation_ids,
                   sequencer_times, wait_for_scheduler, duration, frac_duration,
                   survey_duration, fractional_duration, night, end_of_night,
                   set_timestamp, entry_clock, reposition_clock, down_days,
                   target, interested_proposal, interest_result, observation,
                   targets_received, observations_made, th_updates, cycle_clock,
                   target_proposals_counted, observation_proposals_counted,
                   data, appended_obs, tph_log, oph_log, cycle_rows,
                   cycle_appends,
                   cycle_events, downtime_calls, down_nights>>

(* What NightEnd and the day phase leave alone *)
DayFrame ==
    UNCHANGED <<field_vars, phtype, observation_ids,
                sequencer_times, wait_for_scheduler, duration, frac_duration,
                   survey_duration, fractional_duration, night, clock, end_of_night,
                set_timestamp, entry_clock, reposition_clock, down_days,
                target, interested_proposal, interest_result, observation,
                targets_received, observations_made, th_updates, cycle_clock,
                target_proposals_counted, observation_proposals_counted,
                data, appended_obs, tph_log, oph_log, cycle_rows,
                cycle_appends,
                cycle_events, downtime_calls, down_nights>>

(* end_night also run when the target wait has raised, and the run going on
   from there *)
EndNight_AfterFatal ==
    /\ pc \in {"end_night", "fatal"}
    /\ written' = end_night_written(written, data)
    /\ pc' = "start_day"
    /\ UNCHANGED <<rcode, wall, filter_swap, swap_result, start_day_calls>>
    /\ UNCHANGED put_calls
    /\ DayFrame

(* Simulator.end_night *)
EndNight ==
    /\ pc = "end_night"
    /\ written' = end_night_written(written, data)
    /\ pc' = "start_day"
    /\ UNCHANGED <<rcode, wall, filter_swap, swap_result, start_day_calls>>
    /\ UNCHANGED put_calls
    /\ DayFrame

(* Simulator.start_day up to the swap wait: the time message, a fresh
   filterSwap topic, lastconfigtime = time.time() *)
StartDay ==
    /\ pc = "start_day"
    /\ filter_swap' = [filter_to_unmount |-> ""]
    /\ wall' = 0
    /\ pc' = "swap_wait"
    /\ UNCHANGED <<rcode, swap_result, written, start_day_calls>>
    /\ put_calls' = sal_put(put_calls, "time")
    /\ DayFrame

(* One turn of the filter-swap loop *)
SwapPoll ==
    /\ pc = "swap_wait"
    /\ wait_for_scheduler
    /\ \E rc \in RCodes, f \in Filters, tf \in SoftWallTimes :
         LET fs == IF rc = 0 THEN [filter_to_unmount |-> f] ELSE filter_swap
         IN  /\ tf >= wall
             /\ rcode' = rc
             /\ filter_swap' = fs
             /\ IF SwapReceived(rc, fs.filter_to_unmount)
                  THEN /\ pc' = "seq_start_day"
                       /\ wall' = 0
                       /\ swap_result' = "received"
                  ELSE /\ wall' = tf
                       /\ IF SoftTimedOut(tf)
                            THEN /\ pc' = AfterSwapTimeout
                                 /\ swap_result' = "timeout"
                            ELSE /\ pc' = "swap_wait"
                                 /\ swap_result' = swap_result
    /\ UNCHANGED <<written, start_day_calls>>
    /\ UNCHANGED put_calls
    /\ DayFrame

(* The filter-swap loop with the scheduler disabled *)
SwapSkip ==
    /\ pc = "swap_wait"
    /\ ~wait_for_scheduler
    /\ pc' = "seq_start_day"
    /\ UNCHANGED <<rcode, wall, filter_swap, swap_result, written,
                   start_day_calls>>
    /\ UNCHANGED put_calls
    /\ DayFrame

(* self.seq.start_day(self.filter_swap), then the next turn of the for loop;
   the topic is not read again before start_day replaces it *)
SeqStartDay ==
    /\ pc = "seq_start_day"
    /\ start_day_calls' = start_day_calls + 1
    /\ wall' = 0
    /\ rcode' = 0
    /\ filter_swap' = [filter_to_unmount |-> ""]
    /\ pc' = NextNightPc(night, duration)
    /\ UNCHANGED <<swap_result, written>>
    /\ UNCHANGED put_calls
    /\ DayFrame

Next ==
    \/ StartNight
    \/ PublishTime
    \/ PublishState
    \/ PublishCloud
    \/ PublishSeeing
    \/ TargetPoll
    \/ TargetSkip
    \/ Observe
    \/ PublishObservation
    \/ InterestPoll
    \/ InterestSkip
    \/ AppendData
    \/ EndNight
    \/ StartDay
    \/ SwapPoll
    \/ SwapSkip
    \/ SeqStartDay

Spec == Init /\ [][Next]_vars

-----------------------------------------------------------------------------
(* The short run of the tests: one night without downtime, the scheduler
   enabled, every target poll answered at once by an acceptable target with
   a real id *)

(* self.num_visits of short_run *)
num_visits == 9

ShortRunWindows ==
    {slew_time + visit_time, 2 * (slew_time + visit_time) - 10,
     2 * (slew_time + visit_time), 2 * (slew_time + visit_time) + 1, 360}

PromptTargets ==
    {t \in TargetSamples : t.targetId # -1 /\ t.num_exposures # 0}

ShortRunInit ==
    /\ pc = "start_night"
    /\ wait_for_scheduler = TRUE
    /\ Constructed(Nights(1), Nights(1))
    /\ clock = 0
    /\ FieldsRetrieved
    /\ InitRest

ShortStartNight ==
    StartNightWith({0, Skew}, ShortRunWindows, {0}, num_visits)

ShortTargetPoll == TargetPollWith({0}, PromptTargets, {0})

ShortRunNext ==
    \/ ShortStartNight
    \/ PublishTime
    \/ PublishState
    \/ PublishCloud
    \/ PublishSeeing
    \/ ShortTargetPoll
    \/ Observe
    \/ PublishObservation
    \/ InterestPoll
    \/ AppendData
    \/ EndNight
    \/ StartDay
    \/ SwapPoll
    \/ SeqStartDay

ShortRunSpec == ShortRunInit /\ [][ShortRunNext]_vars

-----------------------------------------------------------------------------
(* Nights that start_night may enter with the clock already well past the
   sunset that get_sunset_sunrise returns, without downtime, the scheduler
   enabled and answering every target poll at once *)

LateOffsets == {0 - 3 * Skew, 0}

LateEntryInit ==
    /\ pc = "start_night"
    /\ wait_for_scheduler = TRUE
    /\ \E n \in 1..MaxNights : Constructed(Nights(n), Nights(n))
    /\ clock = 0
    /\ FieldsRetrieved
    /\ InitRest

LateStartNight == StartNightWith(LateOffsets, NightLengths, {0}, MaxObs)

LateEntryNext ==
    \/ LateStartNight
    \/ PublishTime
    \/ PublishState
    \/ PublishCloud
    \/ PublishSeeing
    \/ ShortTargetPoll
    \/ Observe
    \/ PublishObservation
    \/ InterestPoll
    \/ AppendData
    \/ EndNight
    \/ StartDay
    \/ SwapPoll
    \/ SeqStartDay

LateEntrySpec == LateEntryInit /\ [][LateEntryNext]_vars

-----------------------------------------------------------------------------
(* The exposure loop of one night over a Sequencer whose slew_time and
   visit_time attributes may have been set to other values, zero included.
   Every statement of run() completes, and a polling loop is left once the
   wall clock has passed its timeout, so the control always moves on. *)

MaxLoopObs == 3

LoopTimes ==
    {[slew |-> 0, visit |-> 0], [slew |-> 0, visit |-> visit_time],
     SequencerTimes}

LoopInit ==
    /\ pc = "start_night"
    /\ wait_for_scheduler \in BOOLEAN
    /\ Constructed(Nights(1), Nights(1))
    /\ clock = 0
    /\ IF wait_for_scheduler THEN FieldsRetrieved ELSE NoFieldsYet
    /\ sequencer_times \in LoopTimes
    /\ InitOther

LoopStartNight == StartNightWith({0}, NightLengths, {0}, MaxLoopObs)

LoopObserve ==
    /\ observations_made < MaxLoopObs
    /\ ObserveWith(observe_target_with(target, clock, targets_received,
                                       observations_made, sequencer_times))

LoopNext ==
    \/ LoopStartNight
    \/ PublishTime
    \/ PublishState
    \/ PublishCloud
    \/ PublishSeeing
    \/ TargetPoll
    \/ TargetSkip
    \/ LoopObserve
    \/ PublishObservation
    \/ InterestPoll
    \/ InterestSkip
    \/ AppendData
    \/ EndNight
    \/ StartDay
    \/ SwapPoll
    \/ SwapSkip
    \/ SeqStartDay

LoopSpec ==
    /\ LoopInit
    /\ [][LoopNext]_vars
    /\ WF_vars(LoopNext /\ pc' # pc)

-----------------------------------------------------------------------------
(* The length of the run: Simulator.__init__ over the command-line option
   and the configuration, and the duration property over an assigned
   fractional_duration *)

DurationInit ==
    /\ pc = "construct"
    /\ wait_for_scheduler = TRUE
    /\ frac_duration \in Fractions \cup {NoOverride}
    /\ survey_duration \in Fractions
    /\ fractional_duration = survey_duration
    /\ duration = 0
    /\ clock = 0
    /\ NoFieldsYet
    /\ InitRest

DurationFrame ==
    UNCHANGED <<field_vars, phtype, observation_ids,
                sequencer_times, wait_for_scheduler, night, clock, end_of_night,
                set_timestamp,
                entry_clock, reposition_clock, down_days, target, rcode,
                wall, interested_proposal, interest_result, filter_swap,
                swap_result, observation, targets_received,
                observations_made, th_updates, cycle_clock,
                target_proposals_counted, observation_proposals_counted,
                data, written, appended_obs, tph_log, oph_log, cycle_rows,
                cycle_appends,
                cycle_events, start_day_calls, downtime_calls, down_nights,
                put_calls>>

(* Simulator(options, configuration, database) *)
Construct ==
    /\ pc = "construct"
    /\ LET r == Simulator_init(frac_duration, survey_duration)
       IN  /\ fractional_duration' = r.fractional_duration
           /\ survey_duration' = r.survey_duration
           /\ duration' = Simulator_duration(r.fractional_duration)
    /\ pc' = "constructed"
    /\ UNCHANGED frac_duration
    /\ DurationFrame

(* sim.fractional_duration = f, and the duration property read after it *)
SetFractionalDuration ==
    /\ pc = "constructed"
    /\ \E f \in Fractions :
         /\ fractional_duration' = f
         /\ duration' = Simulator_duration(f)
    /\ UNCHANGED <<pc, frac_duration, survey_duration>>
    /\ DurationFrame

DurationNext ==
    \/ Construct
    \/ SetFractionalDuration

DurationSpec == DurationInit /\ [][DurationNext]_vars

-----------------------------------------------------------------------------
(* The retrieval of the fields at the start of run() *)

FieldIds == {-1, 0, 1, 2}

(* sorted(field_set) *)
sorted(S) ==
    CHOOSE q \in [1..Cardinality(S) -> S] :
        \A i, j \in 1..Cardinality(S) : i < j => q[i] < q[j]

(* FieldStep breaking at the first sentinel sample *)
FieldStep_OneSentinel(rc, f, ended, fset, n) ==
    IF f.ID = 0
      THEN [done |-> FALSE, end_fields |-> ended, field_set |-> fset,
            fields_from_dds |-> n]
    ELSE IF rc = 0 /\ f.ID = -1
      THEN [done |-> TRUE, end_fields |-> TRUE, field_set |-> fset,
            fields_from_dds |-> n]
    ELSE [done |-> FALSE, end_fields |-> ended,
          field_set |-> fset \cup {f.ID}, fields_from_dds |-> n + 1]

(* The body of the while True loop after the poll: what it leaves in
   end_fields, field_set and fields_from_dds, and whether it breaks *)
FieldStep(rc, f, ended, fset, n) ==
    IF f.ID = 0
      THEN [done |-> FALSE, end_fields |-> ended, field_set |-> fset,
            fields_from_dds |-> n]
    ELSE IF rc = 0 /\ f.ID = -1
      THEN [done |-> ended, end_fields |-> TRUE, field_set |-> fset,
            fields_from_dds |-> n]
    ELSE [done |-> FALSE, end_fields |-> ended,
          field_set |-> fset \cup {f.ID}, fields_from_dds |-> n + 1]

FieldInit ==
    /\ pc = "fields"
    /\ wait_for_scheduler \in BOOLEAN
    /\ Constructed(Nights(1), Nights(1))
    /\ clock = 0
    /\ NoFieldsYet
    /\ InitRest

FieldFrame ==
    UNCHANGED <<phtype, observation_ids,
                sequencer_times, wait_for_scheduler, duration, frac_duration,
                survey_duration, fractional_duration, night, clock,
                end_of_night, set_timestamp, entry_clock, reposition_clock,
                down_days, target, rcode, wall, interested_proposal, interest_result,
                filter_swap, swap_result, observation, targets_received,
                observations_made, th_updates, cycle_clock,
                target_proposals_counted, observation_proposals_counted,
                data, written, appended_obs, tph_log, oph_log, cycle_rows,
                cycle_appends, cycle_events, start_day_calls, downtime_calls,
                down_nights, put_calls>>

(* One turn of the while True loop, the poll answered from the given sets;
   on the break, the field list is built and written. Polls other than
   sentinel samples are counted up to MaxFieldPolls. *)
FieldPollWith(rcodes, ids) ==
    /\ pc = "fields"
    /\ wait_for_scheduler
    /\ \E rc \in rcodes, id \in ids :
         LET f == IF rc = 0 THEN [ID |-> id] ELSE field
             r == FieldStep(rc, f, end_fields, field_set, fields_from_dds)
         IN  /\ Len(field_log) < MaxFieldPolls \/ (rc = 0 /\ id = -1)
             /\ field' = f
             /\ field_log' = Append(field_log, [rcode |-> rc, ID |-> f.ID])
             /\ end_fields' = r.end_fields
             /\ field_set' = r.field_set
             /\ fields_from_dds' = r.fields_from_dds
             /\ field_list' = IF r.done THEN sorted(r.field_set) ELSE field_list
             /\ pc' = IF r.done THEN "fields_done" ELSE "fields"
    /\ FieldFrame

FieldPoll == FieldPollWith(RCodes, FieldIds)

(* if self.wait_for_scheduler: with the scheduler disabled *)
FieldSkip ==
    /\ pc = "fields"
    /\ ~wait_for_scheduler
    /\ pc' = "fields_done"
    /\ UNCHANGED field_vars
    /\ FieldFrame

FieldNext ==
    \/ FieldPoll
    \/ FieldSkip

FieldSpec == FieldInit /\ [][FieldNext]_vars

(* The start of run() up to the first start_night, with a scheduler that
   goes on sending the sentinel sample until the retrieval has ended *)

(* for night in xrange(1, int(self.duration) + 1): the first turn *)
EnterNightLoop ==
    /\ pc = "fields_done"
    /\ pc' = NextNightPc(night, duration)
    /\ UNCHANGED field_vars
    /\ FieldFrame

SentinelPoll == FieldPollWith({0}, {-1})

StartupNext ==
    \/ FieldPoll
    \/ FieldSkip
    \/ EnterNightLoop
    \/ StartNight

StartupSpec ==
    /\ FieldInit
    /\ [][StartupNext]_vars
    /\ WF_vars(SentinelPoll)
    /\ WF_vars(FieldSkip)
    /\ WF_vars(EnterNightLoop)
    /\ WF_vars(StartNight)

-----------------------------------------------------------------------------
(* gather_proposal_history on its own: calls of either kind on topics with
   any number of proposals *)

MaxGatherRows == 4

GatherCounts == {-1, 0, 1, 2}

GatherInit ==
    /\ pc = "gather_idle"
    /\ wait_for_scheduler = TRUE
    /\ Constructed(Nights(1), Nights(1))
    /\ clock = 0
    /\ FieldsRetrieved
    /\ InitRest

GatherCall ==
    /\ pc = "gather_idle"
    /\ Len(data.target_proposal_history)
         + Len(data.observation_proposal_history) < MaxGatherRows
    /\ \E kind \in {"target", "observation"}, n \in GatherCounts :
         LET tp == IF kind = "target"
                     THEN [targetId |-> 1, num_exposures |-> 2,
                           num_proposals |-> n]
                     ELSE [num_proposals |-> n,
                           observationId |-> observation.observationId]
             r == gather_proposal_history_call(
                      kind, tp, data, target_proposals_counted,
                      observation_proposals_counted)
         IN  /\ phtype' = kind
             /\ target' = IF kind = "target" THEN tp ELSE target
             /\ interested_proposal' =
                    IF kind = "observation" THEN tp ELSE interested_proposal
             /\ data' = r.data
             /\ target_proposals_counted' = r.target_proposals_counted
             /\ observation_proposals_counted' = r.observation_proposals_counted
    /\ UNCHANGED <<field_vars, pc, observation_ids,
                   sequencer_times, wait_for_scheduler, duration, frac_duration,
                   survey_duration, fractional_duration, night, clock,
                   end_of_night, set_timestamp, entry_clock, reposition_clock,
                   down_days, rcode, wall, interest_result, filter_swap,
                   swap_result, observation, targets_received,
                   observations_made, th_updates, cycle_clock, written,
                   appended_obs, tph_log, oph_log, cycle_rows, cycle_appends,
                   cycle_events, start_day_calls, downtime_calls, down_nights,
                   put_calls>>

GatherNext == GatherCall

GatherSpec == GatherInit /\ [][GatherNext]_vars

-----------------------------------------------------------------------------
(* The Sequencer on its own: observe_target called with any target, None
   included, from any clock value *)

SeqInit ==
    /\ pc = "seq_idle"
    /\ wait_for_scheduler = TRUE
    /\ Constructed(Nights(1), Nights(1))
    /\ clock \in 0..Skew
    /\ NoFieldsYet
    /\ InitRest

SeqObserveCall ==
    /\ pc = "seq_idle"
    /\ observations_made < MaxObs
    /\ \E t \in TargetSamples \cup {NullTarget} :
         LET r == observe_target_call(t, clock, targets_received, observations_made)
         IN  /\ target' = t
             /\ clock' = r.clock
             /\ targets_received' = r.targets_received
             /\ observations_made' = r.observations_made
             /\ th_updates' = r.updates
             /\ observation' = IF r.raised THEN observation ELSE r.observation
             /\ observation_ids' =
                    IF r.raised THEN observation_ids
                    ELSE Append(observation_ids, r.observation.observationId)
             /\ pc' = IF r.raised THEN "seq_error" ELSE "seq_idle"
    /\ cycle_clock' = clock
    /\ UNCHANGED <<field_vars, phtype,
                   sequencer_times, wait_for_scheduler, duration, frac_duration,
                   survey_duration, fractional_duration, night, end_of_night,
                   set_timestamp, entry_clock, reposition_clock, down_days,
                   rcode, wall, interested_proposal, interest_result,
                   filter_swap, swap_result, target_proposals_counted,
                   observation_proposals_counted, data, written, appended_obs,
                   tph_log, oph_log, cycle_rows, cycle_appends, cycle_events,
                   start_day_calls,
                   downtime_calls, down_nights, put_calls>>

SeqNext == SeqObserveCall

SeqSpec == SeqInit /\ [][SeqNext]_vars

-----------------------------------------------------------------------------
(* Helpers of the properties *)

Range(q) == {q[i] : i \in 1..Len(q)}

IsPrefix(p, q) == Len(p) <= Len(q) /\ \A i \in 1..Len(p) : p[i] = q[i]

StrictlyIncreasing(q) == \A i, j \in 1..Len(q) : i < j => q[i] < q[j]

FlushesOf(id) == {b \in 1..Len(written) : id \in Range(written[b].observation_history)}

CycleOrder == <<"time", "state", "cloud", "seeing", "target_wait", "observe",
                "observation", "interest_wait", "append">>

-----------------------------------------------------------------------------
(* C1: on every night with downtime 0 the clock right after start_night's
   repositioning equals the sunset timestamp of get_night_boundaries,
   whatever the clock was on entry. *)
C1_ClockAtSunset ==
    (night >= 1 /\ down_days = 0) => reposition_clock = set_timestamp

(* C2: on every night with downtime > 0 the clock when start_night returns
   equals the end-of-night boundary plus 60 seconds, whatever the clock was
   on entry. *)
C2_DownNightClock ==
    (night >= 1 /\ down_days # 0 /\ pc = "end_night")
        => clock = end_of_night + 60

(* C3: when the run has ended, normally or by the fatal target timeout,
   every observation appended to the per-night buffer is contained in
   exactly one flush. *)
C3_RecordedExactlyOnce ==
    pc \in {"done", "fatal"}
        => \A i \in 1..Len(appended_obs) :
               Cardinality(FlushesOf(appended_obs[i])) = 1

(* C4: with the scheduler enabled, a poll delivering code 0 and a non-zero
   exposure count ends the target wait at once without error; the fatal
   timeout is raised by, and only by, a failed poll that sees more than 60
   seconds since the wait began; a failed poll within 60 seconds polls
   again. *)
C4_HardTimeout ==
    [][ /\ (pc' = "fatal" /\ pc # "fatal")
              => (pc = "target_wait" /\ wait_for_scheduler)
        /\ (pc = "target_wait" /\ wait_for_scheduler)
              => LET accepted == rcode' = 0 /\ target'.num_exposures # 0
                 IN  /\ accepted => pc' = "observe"
                     /\ (~accepted /\ wall' > 60) => pc' = "fatal"
                     /\ (~accepted /\ wall' <= 60) => pc' = "target_wait" ]_vars

C4_Witness ==
    /\ pc = "fatal"
    /\ wall = 61
    /\ ~(rcode = 0 /\ target.num_exposures # 0)

(* C5: a cycle whose interest wait ended by the soft timeout appends no
   observation-proposal-history row. *)
C5_TimeoutNoRows ==
    interest_result = "timeout"
        => cycle_rows.observation_proposal_history = 0

(* C6: a soft timeout never raises: an interest wait that a failed poll
   finds older than 5 seconds goes on to the appends, a swap wait that a
   failed poll finds older than 5 seconds goes on to Sequencer.start_day,
   and the run is ended by nothing but the target wait. *)
C6_SoftTimeoutsAbsorbed ==
    [][ /\ (pc = "interest_wait" /\ wait_for_scheduler
             /\ ~(rcode' = 0 /\ interested_proposal'.num_proposals >= 0)
             /\ wall' > 5)
              => pc' = "append"
        /\ (pc = "swap_wait" /\ wait_for_scheduler
             /\ ~(rcode' = 0 /\ filter_swap'.filter_to_unmount # "")
             /\ wall' > 5)
              => pc' = "seq_start_day"
        /\ pc \in {"interest_wait", "append", "swap_wait", "seq_start_day"}
              => pc' # "fatal"
        /\ pc = "append" => pc' \in {"pub_time", "end_night"}
        /\ pc = "seq_start_day" => pc' \in {"start_night", "done"} ]_vars

C6_Witness ==
    /\ pc = "done"
    /\ interest_result = "timeout"
    /\ swap_result = "timeout"
    /\ duration = 2

(* C7: in each proposal-history stream every row carries a counter greater
   than that of every row appended before it, over the whole run, and the
   counter itself stays above every value it has handed out. *)
C7_CountersIncrease ==
    /\ StrictlyIncreasing(tph_log)
    /\ StrictlyIncreasing(oph_log)
    /\ \A i \in 1..Len(tph_log) : tph_log[i] < target_proposals_counted
    /\ \A i \in 1..Len(oph_log) : oph_log[i] < observation_proposals_counted
    /\ Counters(data.target_proposal_history)
          = SubSeq(tph_log,
                   Len(tph_log) - Len(data.target_proposal_history) + 1,
                   Len(tph_log))
    /\ Counters(data.observation_proposal_history)
          = SubSeq(oph_log,
                   Len(oph_log) - Len(data.observation_proposal_history) + 1,
                   Len(oph_log))

C7_Witness ==
    /\ night = 2
    /\ cycle_rows.target_proposal_history = 1
    /\ cycle_rows.observation_proposal_history = 2
    /\ Len(tph_log) >= 2
    /\ Len(oph_log) >= 4

(* C8: storage is flushed once per night, at NightEnd: before a night's
   NightEnd the flushes number the nights before it, from its day phase on
   they number the nights so far, down nights included, and a completed run
   has made as many flushes as it has nights. *)
C8_OneFlushPerNight ==
    /\ pc \in {"start_night", "start_day", "swap_wait", "seq_start_day", "done"}
          => Len(written) = night
    /\ pc \notin {"start_night", "start_day", "swap_wait", "seq_start_day", "done"}
          => Len(written) = night - 1
    /\ pc = "done" => Len(written) = duration

C8_Witness ==
    /\ pc = "done"
    /\ duration = 2
    /\ down_days # 0
    /\ Len(written) = 2
    /\ written[1].observation_history # <<>>

(* C9: what a cycle has done so far is always an initial part of: time,
   state, cloud, seeing, target wait, observe_target, observation, interest
   wait, appends; and a cycle waiting for its target has published time,
   state, cloud and seeing. *)
C9_CycleOrder ==
    /\ IsPrefix(cycle_events, CycleOrder)
    /\ pc = "target_wait" => cycle_events = SubSeq(CycleOrder, 1, 4)
    /\ pc = "observe" => cycle_events = SubSeq(CycleOrder, 1, 5)
    /\ pc = "append" => cycle_events = SubSeq(CycleOrder, 1, 8)

C9_Witness == cycle_events = CycleOrder

(* C10: a call of observe_target makes two clock advances, the slew first
   and the visit second; the clock after the call is the clock before plus
   both, and the observation's start time is the clock after the slew. *)
C10_ObserveAdvances ==
    pc = "pub_obs"
        => /\ th_updates = <<6, 34>>
           /\ clock = cycle_clock + 6 + 34
           /\ observation.observationTime = cycle_clock + 6
           /\ observation.observationTime < clock

C10_Witness ==
    /\ pc = "pub_obs"
    /\ observations_made = 2
    /\ cycle_clock > 0

(* C11: each call of observe_target stamps a start time strictly later than
   the one stamped by the call before it, in the same night or in an earlier
   one; two calls in succession on the same clock and target differ by the
   visit and the slew. *)
C11_StartTimesIncrease ==
    [][ pc = "observe"
          => /\ observation'.observationTime > observation.observationTime
             /\ observation'.observationTime > clock ]_vars

C11_Witness ==
    /\ pc = "pub_obs"
    /\ night = 2
    /\ observation.observationId >= 1
    /\ observation.observationTime > slew_time + visit_time

(* C12: observe_target called with a null target fails before any clock
   advance: the failed call leaves the clock, targets_received and
   observations_made as they were, and a null target always fails. *)
C12_NullTargetFailsFirst ==
    [][ /\ target' = NullTarget => pc' = "seq_error"
        /\ pc' = "seq_error"
              => /\ target' = NullTarget
                 /\ clock' = clock
                 /\ th_updates' = <<>>
                 /\ targets_received' = targets_received
                 /\ observations_made' = observations_made ]_vars

C12_Witness ==
    /\ pc = "seq_error"
    /\ target = NullTarget
    /\ observations_made = 2
    /\ clock > 2 * (slew_time + visit_time)

(* C13: once the target wait has raised SchedulerTimeoutError nothing more
   happens in run(): no publish, no poll, no clock advance, no append, no
   further cycle or night; and the target wait itself leaves the clock, the
   buffer and the flushes as they were when it began. *)
C13_FatalEndsRun ==
    [][ /\ pc = "fatal" => vars' = vars
        /\ pc = "target_wait"
              => /\ clock' = clock
                 /\ data' = data
                 /\ written' = written
                 /\ night' = night
                 /\ observations_made' = observations_made
                 /\ pc' \in {"target_wait", "observe", "fatal"} ]_vars

C13_Witness ==
    /\ pc = "fatal"
    /\ night = 2
    /\ observations_made = 1
    /\ clock = cycle_clock + slew_time + visit_time
    /\ Len(written) = 1

(* C14: in the short run with a night window of W seconds from the clock and
   40 seconds per observation, the night takes exactly ceil(W / 40) cycles:
   each target wait is one poll, and at NightEnd that many target-history
   and observation-history rows are in the buffer, observations_made and
   targets_received equal that number, and the run ends with one flush; for
   W = 360 the number is 9. *)
C14_NightDone ==
    pc \in {"end_night", "start_day", "swap_wait", "seq_start_day", "done"}

C14_ShortRunCounts ==
    /\ [](C14_NightDone
            => /\ (observations_made - 1) * 40 < end_of_night - set_timestamp
               /\ end_of_night - set_timestamp <= observations_made * 40
               /\ targets_received = observations_made
               /\ Len(data.target_history) = observations_made
               /\ Len(data.observation_history) = observations_made
               /\ (end_of_night - set_timestamp = 360 => observations_made = 9))
    /\ [](pc = "done"
            => /\ Len(written) = 1
               /\ Len(written[1].target_history) = observations_made
               /\ Len(written[1].observation_history) = observations_made)
    /\ [][pc = "target_wait" => pc' = "observe"]_vars

C14_Witness ==
    /\ pc = "done"
    /\ end_of_night - set_timestamp = 360
    /\ observations_made = 9
    /\ targets_received = 9
    /\ Len(written) = 1
    /\ Len(written[1].observation_history) = 9

(* C15: dh.get_downtime is called once per night, so its call count is the
   night number and, at the end of the run, the number of nights; on a night
   it reports down, the run is never inside an exposure cycle (no target
   poll, no observe_target, no interest poll), nothing is appended to the
   buffer, and NightEnd still flushes and the day phase still calls
   Sequencer.start_day once. *)
C15_DayPcs == {"start_day", "swap_wait", "seq_start_day"}

C15_DownNightSkipsCycles ==
    /\ downtime_calls = night
    /\ pc = "done" => downtime_calls = duration
    /\ (night >= 1 /\ down_days # 0)
          => /\ pc \in {"end_night", "start_night", "done"} \cup C15_DayPcs
             /\ cycle_events = <<>>
             /\ cycle_rows = NoRows
             /\ data = EmptyData
             /\ pc = "end_night"
                   => Len(written) = night - 1 /\ start_day_calls = night - 1
             /\ pc \in C15_DayPcs
                   => /\ Len(written) = night
                      /\ written[night] = db_write(<<>>, EmptyData)[1]
                      /\ start_day_calls = night - 1
             /\ pc \in {"start_night", "done"}
                   => Len(written) = night /\ start_day_calls = night

C15_Witness ==
    /\ pc = "done"
    /\ duration = 2
    /\ down_days # 0
    /\ down_nights = 1
    /\ downtime_calls = 2
    /\ start_day_calls = 2
    /\ observations_made >= 1
    /\ written[2].observation_history = <<>>

(* C16: a night with downtime 0 whose end-of-night boundary is later than
   its sunset runs at least one exposure cycle before NightEnd, whatever the
   clock was when start_night was entered. *)
C16_OpenNightHasCycle ==
    (pc = "end_night" /\ down_days = 0 /\ end_of_night > set_timestamp)
        => cycle_events # <<>>

(* C17: each night goes through NightStart, its exposure cycles, NightEnd
   and DayPhase in that order; only NightStart advances the night number,
   by one, so the nights are 1, 2, ..., duration; the next NightStart comes
   only out of the end of a day phase, and the run is done exactly when the
   day phase of night duration has ended. *)
C17_CyclePcs ==
    {"pub_time", "pub_state", "pub_cloud", "pub_seeing", "target_wait",
     "observe", "pub_obs", "interest_wait", "append"}

C17_PhaseOrder ==
    /\ [](night \in 0..duration)
    /\ [](pc \in {"start_night", "end_night", "done", "fatal"}
                 \cup C17_CyclePcs \cup C15_DayPcs)
    /\ [](pc = "done" => night = duration /\ start_day_calls = duration)
    /\ [][ /\ pc = "start_night"
               => night' = night + 1 /\ pc' \in {"pub_time", "end_night"}
           /\ pc # "start_night" => night' = night
           /\ pc \in C17_CyclePcs
               => pc' \in C17_CyclePcs \cup {"end_night", "fatal"}
           /\ pc = "end_night" => pc' = "start_day"
           /\ pc \in C15_DayPcs
               => pc' \in C15_DayPcs \cup {"start_night", "done"}
           /\ pc' = "start_night"
               => pc = "seq_start_day" /\ night < duration
           /\ pc' = "done" <=> (pc = "seq_start_day" /\ night = duration)
         ]_vars

C17_Witness ==
    /\ pc = "done"
    /\ duration = 2
    /\ night = 2
    /\ down_nights = 0
    /\ start_day_calls = 2
    /\ Len(written[1].observation_history) >= 1
    /\ Len(written[2].observation_history) >= 1

(* C18: the number of nights is round(fractional_duration * 365), the
   integer nearest to it with a half rounded up; constructed with option -1
   the simulator keeps the configured survey duration (1 year is 365
   nights) and leaves the configuration alone, with any other option it
   takes the option and writes it into the configuration (1/2 is 183
   nights, 1/365 is 1 night). *)
C18_Nearest(f, n) ==
    LET x == f.num * DAYS_IN_YEAR
    IN  /\ 2 * n * f.den - f.den <= 2 * x
        /\ 2 * x < 2 * n * f.den + f.den

C18_DurationRounded ==
    /\ [](pc = "constructed"
            => /\ C18_Nearest(fractional_duration, duration)
               /\ fractional_duration = [num |-> 1, den |-> 1]
                     => duration = 365
               /\ fractional_duration = [num |-> 1, den |-> 2]
                     => duration = 183
               /\ fractional_duration = [num |-> 1, den |-> DAYS_IN_YEAR]
                     => duration = 1)
    /\ [][pc = "construct"
            => IF frac_duration = NoOverride
                 THEN /\ fractional_duration' = survey_duration
                      /\ survey_duration' = survey_duration
                 ELSE /\ fractional_duration' = frac_duration
                      /\ survey_duration' = frac_duration]_vars

C18_Witness ==
    /\ pc = "constructed"
    /\ frac_duration = [num |-> 1, den |-> 2]
    /\ survey_duration = [num |-> 1, den |-> 2]
    /\ fractional_duration = [num |-> 1, den |-> 2]
    /\ duration = 183

(* C19: counted from the first NightStart on, whenever the run stands
   between two cycles it has published one cloud, one seeing and one
   observation message per cycle, one observatory state per cycle and per
   down night, and one time message per cycle, per down night and per day
   phase begun; a finished run of N nights has published five messages per
   cycle, N day-phase time messages and two messages per down night, which
   is 5 * V + N when no night was down. *)
C19_PutTotal ==
    put_calls["time"] + put_calls["state"] + put_calls["cloud"]
        + put_calls["seeing"] + put_calls["observation"]

C19_DaysBegun ==
    IF pc \in {"swap_wait", "seq_start_day", "start_night", "done"}
      THEN night ELSE night - 1

C19_PutCounts ==
    /\ pc \in {"pub_time", "end_night", "start_night", "done"} \cup C15_DayPcs
          => /\ put_calls["cloud"] = observations_made
             /\ put_calls["seeing"] = observations_made
             /\ put_calls["observation"] = observations_made
             /\ put_calls["state"] = observations_made + down_nights
             /\ put_calls["time"]
                   = observations_made + down_nights + C19_DaysBegun
    /\ pc = "done"
          => /\ C19_PutTotal = 5 * observations_made + duration + 2 * down_nights
             /\ down_nights = 0
                   => C19_PutTotal = 5 * observations_made + duration

C19_Witness ==
    /\ pc = "done"
    /\ duration = 2
    /\ down_nights = 1
    /\ observations_made = 2
    /\ C19_PutTotal = 14
    /\ put_calls["time"] = 5

(* C20: no step of the run moves the clock backward: the clock after
   start_night's repositioning is not before the clock on entry, the clock
   after the downtime skip is not before the repositioned one, every delta
   observe_target hands to update_time is non-negative, and so the clock is
   never below any value it held earlier. *)
C20_ClockMonotonic ==
    /\ [](/\ entry_clock <= reposition_clock
          /\ reposition_clock <= clock
          /\ cycle_clock <= clock
          /\ \A i \in 1..Len(th_updates) : th_updates[i] >= 0)
    /\ [][clock' >= clock]_vars

C20_Witness ==
    /\ pc = "done"
    /\ duration = 2
    /\ down_nights = 1
    /\ observations_made >= 1
    /\ entry_clock < reposition_clock
    /\ reposition_clock < clock
    /\ clock > 2 * (slew_time + visit_time) + SECONDS_IN_MINUTE

(* C21: of the steps of an exposure cycle only the observe_target call
   changes the clock, and it moves it forward; the publishing steps, the
   target wait, the interest wait and the appends leave it as it is, and so
   do NightEnd and every step of the day phase. *)
C21_ClockOnlyInObserve ==
    [][ /\ pc \in (C17_CyclePcs \ {"observe"}) \cup {"end_night"} \cup C15_DayPcs
            => clock' = clock
        /\ pc = "observe" => clock' > clock ]_vars

C21_Witness ==
    /\ pc = "seq_start_day"
    /\ night = 1
    /\ observations_made = 2
    /\ cycle_events[Len(cycle_events)] = "append"
    /\ clock = cycle_clock + slew_time + visit_time

(* C22: with the scheduler enabled, the target wait is left for
   observe_target only by a poll that returned code 0 and delivered a target
   with a non-zero exposure count, so observe_target is called on such a
   target, delivered in the same cycle; a poll with another return code, or
   one delivering exposure count 0, stays in the wait or raises. *)
C22_OnlyAcceptedTargetsObserved ==
    /\ []((pc = "observe" /\ wait_for_scheduler)
            => /\ rcode = 0
               /\ target.num_exposures # 0
               /\ cycle_events[Len(cycle_events)] = "target_wait")
    /\ [][ (pc = "target_wait" /\ wait_for_scheduler)
             => /\ pc' = "observe"
                    => rcode' = 0 /\ target'.num_exposures # 0
                /\ (rcode' # 0 \/ target'.num_exposures = 0)
                    => pc' \in {"target_wait", "fatal"}
          ]_vars

C22_Witness ==
    /\ pc = "observe"
    /\ wait_for_scheduler
    /\ rcode = 0
    /\ target.num_exposures = 2
    /\ target.targetId = 1
    /\ observations_made = 1

(* C23: with the scheduler enabled, the append step of a cycle whose
   observation has a target id other than -1 appends one target-history row,
   then one observation-history row, then the target proposal-history rows,
   then the observation proposal-history rows, then every slew sub-record
   and then every exposure sub-record of the cycle; with target id -1 it
   appends nothing; so the buffer and every flushed batch hold as many
   target-history as observation-history rows. *)
C23_Rank(table) ==
    CASE table = "target_history" -> 1
      [] table = "observation_history" -> 2
      [] table = "target_proposal_history" -> 3
      [] table = "observation_proposal_history" -> 4
      [] table \in Range(slew_info) -> 5
      [] table \in {"target_exposures", "observation_exposures"} -> 6
      [] OTHER -> 0

C23_Count(seq, table) == Cardinality({i \in 1..Len(seq) : seq[i] = table})

C23_CycleAppends ==
    /\ [](/\ Len(data.target_history) = Len(data.observation_history)
          /\ \A i \in 1..Len(written) :
                Len(written[i].target_history)
                    = Len(written[i].observation_history))
    /\ [][ (pc = "append" /\ wait_for_scheduler)
             => IF observation.targetId # -1
                  THEN /\ Len(data'.target_history) = Len(data.target_history) + 1
                       /\ Len(data'.observation_history)
                             = Len(data.observation_history) + 1
                       /\ cycle_appends'[1] = "target_history"
                       /\ cycle_appends'[2] = "observation_history"
                       /\ \A i, j \in 1..Len(cycle_appends') :
                             i < j => /\ C23_Rank(cycle_appends'[i]) > 0
                                      /\ C23_Rank(cycle_appends'[i])
                                            <= C23_Rank(cycle_appends'[j])
                       /\ C23_Count(cycle_appends', "target_history") = 1
                       /\ C23_Count(cycle_appends', "observation_history") = 1
                       /\ C23_Count(cycle_appends', "target_proposal_history")
                             = Max0(target.num_proposals)
                       /\ C23_Count(cycle_appends', "observation_proposal_history")
                             = Len(data'.observation_proposal_history)
                                 - Len(data.observation_proposal_history)
                       /\ \A t \in Range(slew_info) :
                             C23_Count(cycle_appends', t) = 1
                       /\ C23_Count(cycle_appends', "target_exposures")
                             = target.num_exposures
                       /\ C23_Count(cycle_appends', "observation_exposures")
                             = target.num_exposures
                       /\ Len(data'.slew) = Len(data.slew) + Len(slew_info)
                       /\ Len(data'.exposure)
                             = Len(data.exposure) + 2 * target.num_exposures
                  ELSE /\ data' = data
                       /\ cycle_appends' = <<>> ]_vars

C23_Witness ==
    /\ pc = "end_night"
    /\ wait_for_scheduler
    /\ Len(data.target_history) = 2
    /\ Len(cycle_appends) = 13
    /\ cycle_appends[3] = "target_proposal_history"
    /\ cycle_appends[5] = "observation_proposal_history"
    /\ cycle_appends[13] = "observation_exposures"

(* C24: every day phase, on down nights too, first publishes one time
   message, then waits for the filter swap, polling again only while no
   more than 5 seconds have passed, then calls Sequencer.start_day once; a
   wait ended by the timeout raises nothing and hands start_day a request
   with an empty filter_to_unmount, which asks for no swap. *)
C24_DayPhase ==
    /\ [](/\ pc = "swap_wait"
               => /\ wall <= SoftTimeout
                  /\ put_calls["time"] = observations_made + down_nights + night
          /\ pc \in C15_DayPcs => start_day_calls = night - 1
          /\ pc \in {"start_night", "done"} => start_day_calls = night
          /\ (pc = "seq_start_day" /\ swap_result = "timeout")
               => filter_swap.filter_to_unmount = "")
    /\ [][ /\ pc = "start_day"
               => /\ pc' = "swap_wait"
                  /\ put_calls'["time"] = put_calls["time"] + 1
                  /\ start_day_calls' = start_day_calls
           /\ pc = "swap_wait"
               => /\ pc' \in {"swap_wait", "seq_start_day"}
                  /\ put_calls' = put_calls
                  /\ start_day_calls' = start_day_calls
           /\ pc = "seq_start_day"
               => /\ pc' \in {"start_night", "done"}
                  /\ start_day_calls' = start_day_calls + 1 ]_vars

C24_Witness ==
    /\ pc = "seq_start_day"
    /\ swap_result = "timeout"
    /\ filter_swap.filter_to_unmount = ""
    /\ wall = SoftTimeout + 1
    /\ down_days # 0
    /\ night = 2

(* C25: the field retrieval ends when, and only when, the two samples
   received last (code 0, an id other than 0) both carry the id -1: a -1
   followed by a real field does not count; and when every poll returns
   code 0 and id -1 the loop ends after exactly two polls. *)
C25_IsSample(e) == e.rcode = 0 /\ e.ID # 0

C25_Samples == SelectSeq(field_log, C25_IsSample)

C25_TwoConsecutiveSentinels ==
    LET n == Len(C25_Samples)
        ended == n >= 2 /\ C25_Samples[n].ID = -1 /\ C25_Samples[n - 1].ID = -1
    IN  /\ (pc = "fields_done" /\ wait_for_scheduler) => ended
        /\ (pc = "fields" /\ wait_for_scheduler) => ~ended
        /\ (pc = "fields_done" /\ wait_for_scheduler
              /\ \A i \in 1..Len(field_log) : C25_IsSample(field_log[i])
                                                /\ field_log[i].ID = -1)
             => Len(field_log) = 2

(* C26: one call of gather_proposal_history with kind K on a topic with N
   proposals appends N rows to K's proposal-history table, numbered c,
   c + 1, ..., c + N - 1 from K's counter c before the call, leaves K's
   counter at c + N, and leaves the other kind's counter and table as they
   were; with N = 0 the buffer and both counters are unchanged. *)
C26_Stream(d, kind) ==
    IF kind = "target" THEN d.target_proposal_history
    ELSE d.observation_proposal_history

C26_Other(kind) == IF kind = "target" THEN "observation" ELSE "target"

C26_GatherAppendsN ==
    [][ LET K == phtype'
            N == Max0(IF K = "target" THEN target'.num_proposals
                      ELSE interested_proposal'.num_proposals)
            c == IF K = "target" THEN target_proposals_counted
                 ELSE observation_proposals_counted
            cAfter == IF K = "target" THEN target_proposals_counted'
                      ELSE observation_proposals_counted'
            before == C26_Stream(data, K)
            after == C26_Stream(data', K)
        IN  /\ K \in {"target", "observation"}
            /\ Len(after) = Len(before) + N
            /\ SubSeq(after, 1, Len(before)) = before
            /\ \A i \in 1..N : after[Len(before) + i].counter = c + i - 1
            /\ cAfter = c + N
            /\ C26_Stream(data', C26_Other(K)) = C26_Stream(data, C26_Other(K))
            /\ K = "target"
                  => observation_proposals_counted' = observation_proposals_counted
            /\ K = "observation"
                  => target_proposals_counted' = target_proposals_counted
            /\ N = 0 => /\ data' = data
                        /\ target_proposals_counted' = target_proposals_counted
                        /\ observation_proposals_counted'
                              = observation_proposals_counted ]_vars

C26_Witness ==
    /\ pc = "gather_idle"
    /\ phtype = "observation"
    /\ interested_proposal.num_proposals = 2
    /\ Len(data.observation_proposal_history) = 2
    /\ Len(data.target_proposal_history) = 1
    /\ observation_proposals_counted = 3
    /\ target_proposals_counted = 2
    /\ data.observation_proposal_history[2].counter = 2

(* C27: every exposure cycle starts with the clock strictly before the
   end-of-night boundary; at NightEnd the clock is at or past the boundary;
   and at NightEnd of a night without downtime the clock is past the
   boundary by less than one slew plus one visit. *)
C27_CycleStartsBeforeBoundary == pc = "pub_time" => clock < end_of_night

C27_NightEndAtOrPastBoundary == pc = "end_night" => clock >= end_of_night

C27_NightEndWithinOneCycle ==
    /\ C27_CycleStartsBeforeBoundary
    /\ C27_NightEndAtOrPastBoundary
    /\ (pc = "end_night" /\ down_days = 0)
          => clock - end_of_night < slew_time + visit_time

(* C28: after any number of completed observe_target calls targets_received
   and observations_made both equal the number of calls, the k-th call
   (k from 0) stamped observation id k, and no two observations of the run,
   stamped or appended to the buffer, share an id. *)
C28_SequencerCounters ==
    /\ targets_received = observations_made
    /\ observations_made = Len(observation_ids)
    /\ \A k \in 1..Len(observation_ids) : observation_ids[k] = k - 1
    /\ \A i, j \in 1..Len(observation_ids) :
           i # j => observation_ids[i] # observation_ids[j]
    /\ \A i, j \in 1..Len(appended_obs) :
           i # j => appended_obs[i] # appended_obs[j]
    /\ Len(observation_ids) > 0
          => observation.observationId = observation_ids[Len(observation_ids)]

C28_Witness ==
    /\ observations_made = 3
    /\ targets_received = 3
    /\ observation_ids = <<0, 1, 2>>
    /\ Len(appended_obs) >= 2
    /\ observation.observationId = 2

(* C29: the per-night buffer is cleared once per night, by start_night and
   by no other step, after the flush of the night before and before any
   append of the new night; in a run that completes no appended row is
   cleared before it is flushed and no row is part of two flushes. *)
C29_Tables ==
    {"target_history", "observation_history", "target_proposal_history",
     "observation_proposal_history", "slew", "exposure"}

C29_ClearedOncePerNight ==
    /\ [](pc = "start_night" /\ night >= 1
            => /\ Len(written) = night
               /\ written[night].target_history = data.target_history
               /\ written[night].observation_history = data.observation_history)
    /\ [](pc = "done"
            => \A i \in 1..Len(appended_obs) :
                   Cardinality(FlushesOf(appended_obs[i])) = 1)
    /\ [](\A b \in 1..Len(written) :
             \A i \in 1..Len(written[b].observation_history) :
                 FlushesOf(written[b].observation_history[i]) = {b})
    /\ [][ /\ pc = "start_night"
               => /\ night' = night + 1
                  /\ \A t \in C29_Tables : data'[t] = <<>>
                  /\ \A i \in 1..Len(data.observation_history) :
                         FlushesOf(data.observation_history[i]) # {}
           /\ pc # "start_night"
               => /\ night' = night
                  /\ \A t \in C29_Tables : IsPrefix(data[t], data'[t]) ]_vars

C29_Witness ==
    /\ pc = "done"
    /\ night = 2
    /\ Len(written) = 2
    /\ Len(written[1].observation_history) >= 1
    /\ Len(written[2].observation_history) >= 1
    /\ data.observation_history = written[2].observation_history
    /\ Range(written[1].observation_history)
          \cap Range(data.observation_history) = {}

(* C30: every observation-proposal-history row appended in an exposure
   cycle carries the observation id of the observation made in that cycle,
   and every target-proposal-history row appended in it carries the target
   id of the target accepted in that cycle. *)
C30_NewRows(table) ==
    SubSeq(data'[table], Len(data[table]) + 1, Len(data'[table]))

C30_TargetRowsOwned ==
    [][ pc = "append"
          => \A i \in 1..Len(C30_NewRows("target_proposal_history")) :
                 C30_NewRows("target_proposal_history")[i].owner
                     = target.targetId ]_vars

C30_ReceivedRowsOwned ==
    [][ (pc = "append" /\ interest_result = "received")
          => \A i \in 1..Len(C30_NewRows("observation_proposal_history")) :
                 C30_NewRows("observation_proposal_history")[i].owner
                     = observation.observationId ]_vars

C30_RowsOwnedByCycle ==
    [][ pc = "append"
          => /\ \A i \in 1..Len(C30_NewRows("target_proposal_history")) :
                    C30_NewRows("target_proposal_history")[i].owner
                        = target.targetId
             /\ \A i \in 1..Len(C30_NewRows("observation_proposal_history")) :
                    C30_NewRows("observation_proposal_history")[i].owner
                        = observation.observationId ]_vars

(* C31: with the scheduler disabled the run polls no subscribed topic
   (field, target, interest, filter swap) and appends no row, while the
   cycles still run: each calls observe_target, advances the clock and
   publishes its five messages; every night is flushed once, and the run
   ends after the configured nights without the timeout error. *)
C31_NoSchedulerRun ==
    /\ [](~wait_for_scheduler
            => /\ pc # "fatal"
               /\ NoFieldsYet
               /\ target = [targetId |-> 0, num_exposures |-> 0,
                            num_proposals |-> 0]
               /\ interested_proposal = [num_proposals |-> 0,
                                         observationId |-> 0]
               /\ filter_swap = [filter_to_unmount |-> ""]
               /\ rcode = 0 /\ wall = 0
               /\ interest_result = "none" /\ swap_result = "none"
               /\ data = EmptyData
               /\ appended_obs = <<>>
               /\ \A b \in 1..Len(written) :
                      /\ written[b].target_history = <<>>
                      /\ written[b].observation_history = <<>>
               /\ Len(written)
                     = IF pc \in {"start_night", "done"} \cup C15_DayPcs
                         THEN night ELSE night - 1
               /\ pc = "append" => cycle_events = SubSeq(CycleOrder, 1, 8)
               /\ pc \in {"pub_time", "end_night", "start_night", "done"}
                           \cup C15_DayPcs
                     => /\ targets_received = observations_made
                        /\ C19_PutTotal
                              = 5 * observations_made + 2 * down_nights
                                  + C19_DaysBegun
               /\ pc = "done" => night = duration)
    /\ [][ ~wait_for_scheduler
             => /\ pc = "target_wait" => pc' = "observe"
                /\ pc = "observe"
                      => /\ clock' > clock
                         /\ observations_made' = observations_made + 1
                         /\ pc' = "pub_obs"
                /\ pc = "interest_wait" => pc' = "append"
                /\ pc = "append"
                      => /\ data' = data
                         /\ pc' \in {"pub_time", "end_night"}
                /\ pc = "swap_wait" => pc' = "seq_start_day" ]_vars

C31_Witness ==
    /\ ~wait_for_scheduler
    /\ pc = "done"
    /\ duration = 2
    /\ night = 2
    /\ Len(written) = 2
    /\ observations_made >= 2
    /\ down_nights = 0
    /\ put_calls["observation"] = observations_made

(* C32: the exposure loop of a night terminates whenever every
   observe_target call advances the clock by a strictly positive amount: the
   clock reaches the end-of-night boundary after finitely many cycles and
   NightEnd is reached; with a zero total per observation the loop never
   leaves the night. *)
C32_Positive == sequencer_times.slew + sequencer_times.visit > 0

C32_ZeroNeverLeaves ==
    /\ []((~C32_Positive /\ pc \in C17_CyclePcs) => clock < end_of_night)
    /\ [][ (~C32_Positive /\ pc \in C17_CyclePcs)
             => pc' # "end_night" ]_vars

C32_LoopReachesNightEnd ==
    /\ (C32_Positive /\ pc \in C17_CyclePcs) ~> pc = "end_night"
    /\ C32_ZeroNeverLeaves

(* C32, amended: with a strictly positive total per observation the loop
   ends after finitely many cycles, by NightEnd or, with the scheduler
   enabled, by the fatal timeout of a target wait; with the scheduler
   disabled NightEnd is always reached; with a zero total the loop never
   reaches NightEnd. *)
C32_LoopEnds ==
    /\ (C32_Positive /\ pc \in C17_CyclePcs) ~> pc \in {"end_night", "fatal"}
    /\ (C32_Positive /\ ~wait_for_scheduler /\ pc \in C17_CyclePcs)
          ~> pc = "end_night"
    /\ [][ pc' = "fatal" => pc \in {"target_wait", "fatal"} ]_vars
    /\ C32_ZeroNeverLeaves

C32_Witness ==
    /\ pc = "end_night"
    /\ sequencer_times = [slew |-> 0, visit |-> visit_time]
    /\ observations_made = 3
    /\ clock >= end_of_night
    /\ cycle_events = CycleOrder

(* C33: the field retrieval has no deadline: it ends only when two
   sentinel samples (return code 0, id -1) have been delivered; while fewer
   have arrived the driver keeps polling and night 1 is not started; if the
   scheduler eventually sends both sentinels, night 1 is eventually
   started. *)
C33_IsSentinel(e) == e.rcode = 0 /\ e.ID = -1

C33_Sentinels == Len(SelectSeq(field_log, C33_IsSentinel))

C33_FieldRetrievalEnds ==
    /\ []((pc = "fields" /\ wait_for_scheduler)
            => (C33_Sentinels < 2 /\ night = 0))
    /\ []((pc # "fields" /\ wait_for_scheduler)
            => /\ C33_Sentinels = 2
               /\ C33_IsSentinel(field_log[Len(field_log)]))
    /\ []((night >= 1 /\ wait_for_scheduler) => C33_Sentinels = 2)
    /\ [][ (pc = "fields" /\ wait_for_scheduler)
             => /\ Len(field_log') = Len(field_log) + 1
                /\ pc' \in {"fields", "fields_done"}
                /\ pc' = "fields_done"
                      <=> (C33_Sentinels = 1
                             /\ C33_IsSentinel(field_log'[Len(field_log')])) ]_vars
    /\ <>(night = 1)

C33_Witness ==
    /\ night = 1
    /\ wait_for_scheduler
    /\ Len(field_log) = 5
    /\ field_log[1].ID = 0
    /\ C33_IsSentinel(field_log[2])
    /\ field_log[3] = [rcode |-> -100, ID |-> -1]
    /\ field_log[4].ID = 1
    /\ C33_IsSentinel(field_log[5])

(* C34: the fields written to the field table at start-up never include
   an entry with id 0 or with the sentinel id -1, for any sequence of poll
   return codes and field samples, and a field received several times is
   written once. *)
C34_WrittenOnce ==
    /\ \A i, j \in 1..Len(field_list) : i # j => field_list[i] # field_list[j]
    /\ pc = "fields_done" => Range(field_list) = field_set

C34_NoZeroWritten == 0 \notin field_set /\ 0 \notin Range(field_list)

C34_FieldTableClean ==
    /\ C34_WrittenOnce
    /\ C34_NoZeroWritten
    /\ -1 \notin Range(field_list)

====
